---- MODULE Spec2Model ----
(***************************************************************************)
(* A model of the mtree parser: the primitive decoders (util.rs), the      *)
(* keyword decoder and line classifier (parser.rs) and the iterator with   *)
(* its directory / default-params state (lib.rs).                          *)
(*                                                                         *)
(* Bytes are one-character strings, byte slices are sequences of them.     *)
(* Option<T> is a sequence of length 0 (None) or 1 (Some).  Unsigned       *)
(* integers wider than TLC's own are big-endian sequences of 16-bit limbs  *)
(* (u32: 2 limbs, u64: 4 limbs, u128: 8 limbs), so that the overflow       *)
(* checks of the code happen at the width of the code.                     *)
(***************************************************************************)
EXTENDS Integers, Sequences, FiniteSets, TLC

----------------------------------------------------------------------------
(* Option, Result, let                                                     *)

None == <<>>
Some(v) == <<v>>

Ok(v) == [tag |-> "Ok", val |-> v]
Err(e) == [tag |-> "Err", err |-> e]
Panic(m) == [tag |-> "Panic", msg |-> m]

\* `let v = value; body`
Bind(value, body(_)) == body(value)

\* ParserError(String): the message template, the text it quotes and the
\* numbers it formats.
ParserError(msg, text, at, want) ==
    [msg |-> msg, text |-> text, at |-> at, want |-> want]

----------------------------------------------------------------------------
(* Fixed-width unsigned integers                                           *)

LimbBase == 2^16
u32 == 2
u64 == 4
u128 == 8

Zero(w) == [i \in 1..w |-> 0]

\* x * m + c from limb i down: the product modulo the width and the carry
\* out of the top limb
RECURSIVE LimbMulFrom(_, _, _, _)
LimbMulFrom(x, m, i, c) ==
    IF i = 0 THEN [limbs |-> x, carry |-> c]
    ELSE Bind(x[i] * m + c, LAMBDA t :
         Bind([x EXCEPT ![i] = t % LimbBase], LAMBDA y :
         LimbMulFrom(y, m, i - 1, t \div LimbBase)))

\* uN::checked_mul by a small factor, uN::checked_add of a small addend
checked_mul(x, m) ==
    Bind(LimbMulFrom(x, m, Len(x), 0), LAMBDA r :
         IF r.carry = 0 THEN Some(r.limbs) ELSE None)

\* A faulty addition, one that wraps around at the width
checked_add_wrapping(x, a) == Some(LimbMulFrom(x, 1, Len(x), a).limbs)

checked_add(x, a) ==
    Bind(LimbMulFrom(x, 1, Len(x), a), LAMBDA r :
         IF r.carry = 0 THEN Some(r.limbs) ELSE None)

\* x >= y for two values of the same width
RECURSIVE LimbGeFrom(_, _, _)
LimbGeFrom(x, y, i) ==
    IF i > Len(x) THEN TRUE
    ELSE IF x[i] # y[i] THEN x[i] > y[i]
    ELSE LimbGeFrom(x, y, i + 1)

LimbGe(x, y) == LimbGeFrom(x, y, 1)

----------------------------------------------------------------------------
(* util.rs: single characters                                              *)

DecDigits == <<"0","1","2","3","4","5","6","7","8","9">>
OctDigits == <<"0","1","2","3","4","5","6","7">>
HexLower == <<"a","b","c","d","e","f">>
HexUpper == <<"A","B","C","D","E","F">>

\* i - b'0' + 1 for a byte of the range, 0 when the byte is outside it
PosIn(i, range) ==
    IF \E p \in 1..Len(range) : range[p] = i
    THEN CHOOSE p \in 1..Len(range) : range[p] = i
    ELSE 0

\* A faulty hex digit, one that knows the lower-case letters only
from_hex_ch_lower(i) ==
    IF PosIn(i, DecDigits) > 0 THEN Some(PosIn(i, DecDigits) - 1)
    ELSE IF PosIn(i, HexLower) > 0 THEN Some(PosIn(i, HexLower) - 1 + 10)
    ELSE None

from_hex_ch(i) ==
    IF PosIn(i, DecDigits) > 0 THEN Some(PosIn(i, DecDigits) - 1)
    ELSE IF PosIn(i, HexLower) > 0 THEN Some(PosIn(i, HexLower) - 1 + 10)
    ELSE IF PosIn(i, HexUpper) > 0 THEN Some(PosIn(i, HexUpper) - 1 + 10)
    ELSE None

from_dec_ch(i) ==
    IF PosIn(i, DecDigits) > 0 THEN Some(PosIn(i, DecDigits) - 1) ELSE None

from_oct_ch(i) ==
    IF PosIn(i, OctDigits) > 0 THEN Some(PosIn(i, OctDigits) - 1) ELSE None

----------------------------------------------------------------------------
(* slices                                                                  *)

Contains(s, ch) == \E i \in 1..Len(s) : s[i] = ch

FirstIndex(s, ch) ==
    CHOOSE i \in 1..Len(s) : s[i] = ch /\ \A j \in 1..(i - 1) : s[j] # ch

\* slice::splitn(n, |c| *c == ch): at most n pieces, the last one the rest
RECURSIVE splitn(_, _, _)
splitn(n, s, ch) ==
    IF n = 1 \/ ~Contains(s, ch) THEN <<s>>
    ELSE Bind(FirstIndex(s, ch), LAMBDA i :
         Bind(SubSeq(s, i + 1, Len(s)), LAMBDA rest :
         Bind(splitn(n - 1, rest, ch), LAMBDA pieces :
         <<SubSeq(s, 1, i - 1)>> \o pieces)))

\* slice::split(|c| *c == ch)
split(s, ch) == splitn(Len(s) + 1, s, ch)

\* Iterator::filter(|word| !word.is_empty())
filter_nonempty(parts) == SelectSeq(parts, LAMBDA word : word # <<>>)

----------------------------------------------------------------------------
(* util.rs: decimal and hexadecimal numbers                                *)

RECURSIVE from_dec_loop(_, _, _)
from_dec_loop(input, idx, acc) ==
    IF idx = Len(input) THEN Ok(acc)
    ELSE Bind(from_dec_ch(input[idx + 1]), LAMBDA val :
         IF val = None
         THEN Err(ParserError("could not parse as a number, problem at char",
                              input, idx, 0))
         ELSE Bind(checked_mul(acc, 10), LAMBDA shifted :
         IF shifted = None
         THEN Err(ParserError("could not parse integer - shift overflow", <<>>, 0, 0))
         ELSE Bind(checked_add(shifted[1], val[1]), LAMBDA added :
         IF added = None
         THEN Err(ParserError("could not parse integer - addition overflow", <<>>, 0, 0))
         ELSE from_dec_loop(input, idx + 1, added[1]))))

\* <uN as FromDec>::from_dec, width the number of limbs of uN
from_dec(input, width) == from_dec_loop(input, 0, Zero(width))

\* The positions of `input` that from_hex_ch rejects
NotHex(input) == {i \in 1..Len(input) : from_hex_ch(input[i]) = None}

\* The first position a loop over `input` stops at, counted from 0
FirstBad(bad) == (CHOOSE i \in bad : \A j \in bad : i <= j) - 1

\* <[u8; size] as FromHex>::from_hex and the Array48 / Array64 newtypes:
\* the loop over input.chunks(2) stops at the first char that is not hex,
\* the high one of a chunk before the low one, and fills acc[idx] with
\* high * 16 + low
from_hex_arr(input, size) ==
    IF Len(input) # 2 * size
    THEN Err(ParserError("input length must be twice the vec size, but it is not",
                         input, Len(input), size))
    ELSE IF NotHex(input) # {}
    THEN Err(ParserError("char at position is not hex", input,
                         FirstBad(NotHex(input)), 0))
    ELSE Ok([idx \in 1..size |->
                from_hex_ch(input[2 * idx - 1])[1] * 16 + from_hex_ch(input[2 * idx])[1]])

\* <u128 as FromHex>::from_hex: the loop stops at the first char that is
\* not hex; acc = acc * 16 + val over 32 digits fills the 128 bits exactly,
\* four digits to a limb
from_hex_u128(input) ==
    IF Len(input) # 32
    THEN Err(ParserError("could not parse as a number, must be 32 chars",
                         input, Len(input), 32))
    ELSE IF NotHex(input) # {}
    THEN Err(ParserError("could not parse as a number, problem at char", input,
                         FirstBad(NotHex(input)), 0))
    ELSE Ok([k \in 1..u128 |->
                from_hex_ch(input[4 * k - 3])[1] * 4096
                + from_hex_ch(input[4 * k - 2])[1] * 256
                + from_hex_ch(input[4 * k - 1])[1] * 16
                + from_hex_ch(input[4 * k])[1]])

----------------------------------------------------------------------------
(* util.rs: time                                                           *)

\* NANOS_PER_SEC = 1_000_000_000 as a u32
NanosPerSec == <<15258, 51712>>

\* nanos / NANOS_PER_SEC for a u32: the largest k with k * 10^9 <= nanos
NanoCarry(nano) ==
    CHOOSE k \in 0..4 :
        /\ LimbGe(nano, LimbMulFrom(NanosPerSec, k, u32, 0).limbs)
        /\ k < 4 => ~LimbGe(nano, LimbMulFrom(NanosPerSec, k + 1, u32, 0).limbs)

\* nanos % NANOS_PER_SEC, which fits a TLC integer
NanoRem(nano) ==
    Bind(LimbMulFrom(NanosPerSec, NanoCarry(nano), u32, 0).limbs, LAMBDA base :
         (nano[1] - base[1]) * LimbBase + (nano[2] - base[2]))

\* A faulty Duration::new, one that lets the carry of nanos go
Duration_new_nocarry(secs, nano) == Ok([secs |-> secs, nanos |-> NanoRem(nano)])

\* std::time::Duration::new(secs, nanos): the carry of nanos is added to
\* secs with checked_add(..).expect("overflow in Duration::new")
Duration_new(secs, nano) ==
    Bind(checked_add(secs, NanoCarry(nano)), LAMBDA sum :
         IF sum = None THEN Panic("overflow in Duration::new")
         ELSE Ok([secs |-> sum[1], nanos |-> NanoRem(nano)]))

parse_time(input) ==
    Bind(splitn(2, input, "."), LAMBDA time_iter :
    Bind(from_dec(time_iter[1], u64), LAMBDA sec :
         IF sec.tag # "Ok" THEN sec
         ELSE IF Len(time_iter) < 2
         THEN Err(ParserError("couldn't parse time from", input, 0, 0))
         ELSE Bind(from_dec(time_iter[2], u32), LAMBDA nano :
              IF nano.tag # "Ok" THEN nano
              ELSE Duration_new(sec.val, nano.val))))

----------------------------------------------------------------------------
(* parser.rs: Type, Format, FileMode, DeviceRef                            *)

\* Type::from_bytes: the names and their variants
TypeNames == <<
    <<<<"b","l","o","c","k">>, "BlockDevice">>,
    <<<<"c","h","a","r">>, "CharacterDevice">>,
    <<<<"d","i","r">>, "Directory">>,
    <<<<"f","i","f","o">>, "Fifo">>,
    <<<<"f","i","l","e">>, "File">>,
    <<<<"l","i","n","k">>, "SymbolicLink">>,
    <<<<"s","o","c","k","e","t">>, "Socket">> >>

\* Format::from_bytes: the names and their variants
FormatNames == <<
    <<<<"n","a","t","i","v","e">>, "Native">>,
    <<<<"3","8","6","b","s","d">>, "Bsd386">>,
    <<<<"4","b","s","d">>, "Bsd4">>,
    <<<<"b","s","d","o","s">>, "BsdOs">>,
    <<<<"f","r","e","e","b","s","d">>, "FreeBsd">>,
    <<<<"h","p","u","x">>, "Hpux">>,
    <<<<"i","s","c">>, "Isc">>,
    <<<<"l","i","n","u","x">>, "Linux">>,
    <<<<"n","e","t","b","s","d">>, "NetBsd">>,
    <<<<"o","s","f","1">>, "Osf1">>,
    <<<<"s","c","o">>, "Sco">>,
    <<<<"s","o","l","a","r","i","s">>, "Solaris">>,
    <<<<"s","u","n","o","s">>, "SunOs">>,
    <<<<"s","v","r","3">>, "Svr3">>,
    <<<<"s","v","r","4">>, "Svr4">>,
    <<<<"u","l","t","r","i","x">>, "Ultrix">> >>

\* a match on byte-string literals: the variant of the first arm that is
\* equal to the input, None when the catch-all arm is taken
MatchName(table, input) ==
    IF \E i \in 1..Len(table) : table[i][1] = input
    THEN Some(table[CHOOSE i \in 1..Len(table) :
                        /\ table[i][1] = input
                        /\ \A j \in 1..(i - 1) : table[j][1] # input][2])
    ELSE None

Type_from_bytes(input) ==
    Bind(MatchName(TypeNames, input), LAMBDA ty :
         IF ty = None
         THEN Err(ParserError("is not a valid file type", input, 0, 0))
         ELSE Ok(ty[1]))

\* A faulty match, one with a fallback arm for the names it does not know
Format_from_bytes_fallback(bytes) ==
    Bind(MatchName(FormatNames, bytes), LAMBDA format :
         IF format = None THEN Ok("Native") ELSE Ok(format[1]))

Format_from_bytes(bytes) ==
    Bind(MatchName(FormatNames, bytes), LAMBDA format :
         IF format = None
         THEN Err(ParserError("is not a valid format", bytes, 0, 0))
         ELSE Ok(format[1]))

\* FileMode::from_bytes with its inner from_bytes_opt; Perms { bits } is
\* the octal digit
FileMode_from_bytes(input) ==
    IF /\ Len(input) = 3
       /\ from_oct_ch(input[1]) # None
       /\ from_oct_ch(input[2]) # None
       /\ from_oct_ch(input[3]) # None
    THEN Ok([owner |-> from_oct_ch(input[1])[1],
             group |-> from_oct_ch(input[2])[1],
             other |-> from_oct_ch(input[3])[1]])
    ELSE Err(ParserError("mode value must be 3 octal chars, found", input, 0, 0))

\* the bits of Perms
READ == 4
WRITE == 2
EXECUTE == 1

\* A faulty test, one that compares the bits with the flag
Perms_contains_any(bits, flag) == bits >= flag

\* Perms::contains for a flag of one bit
Perms_contains(bits, flag) == (bits \div flag) % 2 = 1

\* <Perms as Display>::fmt
Perms_fmt(bits) ==
    << IF Perms_contains(bits, READ) THEN "r" ELSE "-",
       IF Perms_contains(bits, WRITE) THEN "w" ELSE "-",
       IF Perms_contains(bits, EXECUTE) THEN "x" ELSE "-" >>

\* <FileMode as Display>::fmt
FileMode_fmt(mode) ==
    Perms_fmt(mode.owner) \o Perms_fmt(mode.group) \o Perms_fmt(mode.other)

DeviceRef_from_bytes(input) ==
    Bind(splitn(4, input, ","), LAMBDA iter :
    Bind(Format_from_bytes(iter[1]), LAMBDA format :
         IF format.tag # "Ok" THEN format
         ELSE IF Len(iter) < 2
         THEN Err(ParserError("could not read major field from device", input, 0, 0))
         ELSE IF Len(iter) < 3
         THEN Err(ParserError("could not read minor field from device", input, 0, 0))
         ELSE Ok([format |-> format.val,
                  major |-> iter[2],
                  minor |-> iter[3],
                  subunit |-> IF Len(iter) < 4 THEN None ELSE Some(iter[4])])))

\* DeviceRef::to_device copies the borrowed fields
to_device(device) == device

----------------------------------------------------------------------------
(* parser.rs: Keyword                                                      *)

Keyword(kw, val) == [kw |-> kw, val |-> val]

\* the inner fn next(field, val) of Keyword::from_bytes
next_param(field, val) ==
    IF val = None
    THEN Err(ParserError("requires a parameter, none found", field, 0, 0))
    ELSE Ok(val[1])

\* Keyword::Variant(decode(next(field, iter.next())?)?)
WithParam(kw, field, val, decode(_)) ==
    IF val = None THEN next_param(field, val)
    ELSE Bind(decode(next_param(field, val).val), LAMBDA decoded :
         IF decoded.tag # "Ok" THEN decoded
         ELSE Ok(Keyword(kw, decoded.val)))

\* the arms of the match of Keyword::from_bytes
KeywordArm(input, key, val) ==
    LET dec64(b) == from_dec(b, u64)
        raw(b) == Ok(b)
        hex20(b) == from_hex_arr(b, 20)
        hex32(b) == from_hex_arr(b, 32)
        hex48(b) == from_hex_arr(b, 48)
        hex64(b) == from_hex_arr(b, 64)
    IN  CASE key = <<"c","k","s","u","m">> -> WithParam("Checksum", <<"c","k","s","u","m">>, val, dec64)
          [] key = <<"d","e","v","i","c","e">> ->
                WithParam("DeviceRef", <<"d","e","v","i","c","e","s">>, val, DeviceRef_from_bytes)
          [] key = <<"c","o","n","t","e","n","t","s">> -> WithParam("Contents", <<"c","o","n","t","e","n","t","s">>, val, raw)
          [] key = <<"f","l","a","g","s">> -> WithParam("Flags", <<"f","l","a","g","s">>, val, raw)
          [] key = <<"g","i","d">> -> WithParam("Gid", <<"g","i","d">>, val, dec64)
          [] key = <<"g","n","a","m","e">> -> WithParam("Gname", <<"g","n","a","m","e">>, val, raw)
          [] key = <<"i","g","n","o","r","e">> -> Ok(Keyword("Ignore", <<>>))
          [] key = <<"i","n","o","d","e">> -> WithParam("Inode", <<"i","n","o","d","e">>, val, dec64)
          [] key = <<"l","i","n","k">> -> WithParam("Link", <<"l","i","n","k">>, val, raw)
          [] key \in {<<"m","d","5">>, <<"m","d","5","d","i","g","e","s","t">>} ->
                WithParam("Md5", <<"m","d","5","|","m","d","5","d","i","g","e","s","t">>, val, from_hex_u128)
          [] key = <<"m","o","d","e">> -> WithParam("Mode", <<"m","o","d","e">>, val, FileMode_from_bytes)
          [] key = <<"n","l","i","n","k">> -> WithParam("NLink", <<"n","l","i","n","k">>, val, dec64)
          [] key = <<"n","o","c","h","a","n","g","e">> -> Ok(Keyword("NoChange", <<>>))
          [] key = <<"o","p","t","i","o","n","a","l">> -> Ok(Keyword("Optional", <<>>))
          [] key = <<"r","e","s","d","e","v","i","c","e">> ->
                WithParam("ResidentDeviceRef", <<"r","e","s","d","e","v","i","c","e">>, val, DeviceRef_from_bytes)
          [] key \in {<<"r","m","d","1","6","0">>, <<"r","m","d","1","6","0","d","i","g","e","s","t">>, <<"r","i","p","e","m","d","1","6","0","d","i","g","e","s","t">>} ->
                WithParam("Rmd160", <<"r","m","d","1","6","0","|","r","m","d","1","6","0","d","i","g","e","s","t","|","r","i","p","e","m","d","1","6","0","d","i","g","e","s","t">>, val, hex20)
          [] key \in {<<"s","h","a","1">>, <<"s","h","a","1","d","i","g","e","s","t">>} ->
                WithParam("Sha1", <<"s","h","a","1","|","s","h","a","1","d","i","g","e","s","t">>, val, hex20)
          [] key \in {<<"s","h","a","2","5","6">>, <<"s","h","a","2","5","6","d","i","g","e","s","t">>} ->
                WithParam("Sha256", <<"s","h","a","2","5","6","|","s","h","a","2","5","6","d","i","g","e","s","t">>, val, hex32)
          [] key \in {<<"s","h","a","3","8","4">>, <<"s","h","a","3","8","4","d","i","g","e","s","t">>} ->
                WithParam("Sha384", <<"s","h","a","3","8","4","|","s","h","a","3","8","4","d","i","g","e","s","t">>, val, hex48)
          [] key \in {<<"s","h","a","5","1","2">>, <<"s","h","a","5","1","2","d","i","g","e","s","t">>} ->
                WithParam("Sha512", <<"s","h","a","5","1","2","|","s","h","a","5","1","2","d","i","g","e","s","t">>, val, hex64)
          [] key = <<"s","i","z","e">> -> WithParam("Size", <<"s","i","z","e">>, val, dec64)
          [] key = <<"t","i","m","e">> -> WithParam("Time", <<"t","i","m","e">>, val, parse_time)
          [] key = <<"t","y","p","e">> -> WithParam("Type", <<"t","y","p","e">>, val, Type_from_bytes)
          [] key = <<"u","i","d">> -> WithParam("Uid", <<"u","i","d">>, val, dec64)
          [] key = <<"u","n","a","m","e">> -> WithParam("Uname", <<"u","n","a","m","e">>, val, raw)
          [] OTHER -> Err(ParserError("is not a valid parameter key (in)", key,
                                      Len(input), 0))

\* Keyword::from_bytes
Keyword_from_bytes(input) ==
    Bind(splitn(2, input, "="), LAMBDA iter :
         KeywordArm(input, iter[1], IF Len(iter) < 2 THEN None ELSE Some(iter[2])))

----------------------------------------------------------------------------
(* parser.rs: SpecialKind and MTreeLine                                    *)

\* A faulty match, one that takes `Set` for `set`
SpecialKind_from_bytes_anycase(input) ==
    CASE input \in {<<"s","e","t">>, <<"S","e","t">>} -> Ok("Set")
      [] input = <<"u","n","s","e","t">> -> Ok("Unset")
      [] OTHER -> Err(ParserError("is not a special command", input, 0, 0))

SpecialKind_from_bytes(input) ==
    CASE input = <<"s","e","t">> -> Ok("Set")
      [] input = <<"u","n","s","e","t">> -> Ok("Unset")
      [] OTHER -> Err(ParserError("is not a special command", input, 0, 0))

\* The loop over the remaining words of MTreeLine::from_bytes.  A word that
\* does not decode fails the debug_assert! when debug assertions are
\* compiled in, and is dropped by `if let Ok(keyword)` when they are not.
RECURSIVE collect_params(_, _, _)
collect_params(parts, params, debug_assertions) ==
    IF parts = <<>> THEN Ok(params)
    ELSE Bind(Keyword_from_bytes(Head(parts)), LAMBDA keyword :
         IF keyword.tag = "Panic" THEN keyword
         ELSE IF keyword.tag # "Ok" /\ debug_assertions
         THEN Panic("could not parse bytes")
         ELSE Bind(IF keyword.tag = "Ok" THEN Append(params, keyword.val) ELSE params,
                   LAMBDA pushed :
              Bind(Tail(parts), LAMBDA rest :
              collect_params(rest, pushed, debug_assertions))))

\* A faulty classification, a path with a `/` in it taken as a relative one
classify_relative(first, params) ==
    IF params.tag # "Ok" THEN params
    ELSE IF first[1] = "/"
    THEN Bind(SpecialKind_from_bytes(Tail(first)), LAMBDA kind :
              IF kind.tag # "Ok" THEN kind
              ELSE Ok([line |-> "Special", kind |-> kind.val,
                       keywords |-> params.val]))
    ELSE Ok([line |-> "Relative", path |-> first, keywords |-> params.val])

\* MTreeLine::from_bytes once the line is neither blank, a comment nor `..`
classify(first, params) ==
    IF params.tag # "Ok" THEN params
    ELSE IF first[1] = "/"
    THEN Bind(SpecialKind_from_bytes(Tail(first)), LAMBDA kind :
              IF kind.tag # "Ok" THEN kind
              ELSE Ok([line |-> "Special", kind |-> kind.val,
                       keywords |-> params.val]))
    ELSE IF Contains(first, "/")
    THEN Ok([line |-> "Full", path |-> first, keywords |-> params.val])
    ELSE Ok([line |-> "Relative", path |-> first, keywords |-> params.val])

MTreeLine_from_bytes(input, debug_assertions) ==
    Bind(filter_nonempty(split(input, " ")), LAMBDA parts :
         IF parts = <<>> THEN Ok([line |-> "Blank"])
         ELSE IF parts[1][1] = "#" THEN Ok([line |-> "Comment", text |-> input])
         ELSE IF parts[1] = <<".",".">> THEN Ok([line |-> "DotDot"])
         ELSE Bind(collect_params(Tail(parts), <<>>, debug_assertions),
                   LAMBDA params : classify(parts[1], params)))

----------------------------------------------------------------------------
(* lib.rs: Params                                                          *)

\* #[derive(Default)] for Params
Params_default ==
    [checksum |-> None, device |-> None, contents |-> None, flags |-> None,
     gid |-> None, gname |-> None, ignore |-> FALSE, inode |-> None,
     link |-> None, md5 |-> None, mode |-> None, nlink |-> None,
     no_change |-> FALSE, optional |-> FALSE, resident_device |-> None,
     rmd160 |-> None, sha1 |-> None, sha256 |-> None, sha384 |-> None,
     sha512 |-> None, size |-> None, time |-> None, file_type |-> None,
     uid |-> None, uname |-> None]

\* UNIX_EPOCH + time: SystemTime::add is checked_add(..).expect(..), and a
\* SystemTime counts its seconds in an i64
SystemTime_add(time) ==
    IF time.secs[1] >= 2^15
    THEN Panic("overflow when adding duration to instant")
    ELSE Ok(time)

\* Params::set
set(self, keyword) ==
    LET v == keyword.val
    IN  CASE keyword.kw = "Checksum" -> Ok([self EXCEPT !.checksum = Some(v)])
          [] keyword.kw = "DeviceRef" -> Ok([self EXCEPT !.device = Some(to_device(v))])
          [] keyword.kw = "Contents" -> Ok([self EXCEPT !.contents = Some(v)])
          [] keyword.kw = "Flags" -> Ok([self EXCEPT !.flags = Some(v)])
          [] keyword.kw = "Gid" -> Ok([self EXCEPT !.gid = Some(v)])
          [] keyword.kw = "Gname" -> Ok([self EXCEPT !.gname = Some(v)])
          [] keyword.kw = "Ignore" -> Ok([self EXCEPT !.ignore = TRUE])
          [] keyword.kw = "Inode" -> Ok([self EXCEPT !.inode = Some(v)])
          [] keyword.kw = "Link" -> Ok([self EXCEPT !.link = Some(v)])
          [] keyword.kw = "Md5" -> Ok([self EXCEPT !.md5 = Some(v)])
          [] keyword.kw = "Mode" -> Ok([self EXCEPT !.mode = Some(v)])
          [] keyword.kw = "NLink" -> Ok([self EXCEPT !.nlink = Some(v)])
          [] keyword.kw = "NoChange" -> Ok([self EXCEPT !.no_change = FALSE])
          [] keyword.kw = "Optional" -> Ok([self EXCEPT !.optional = FALSE])
          [] keyword.kw = "ResidentDeviceRef" ->
                Ok([self EXCEPT !.resident_device = Some(to_device(v))])
          [] keyword.kw = "Rmd160" -> Ok([self EXCEPT !.rmd160 = Some(v)])
          [] keyword.kw = "Sha1" -> Ok([self EXCEPT !.sha1 = Some(v)])
          [] keyword.kw = "Sha256" -> Ok([self EXCEPT !.sha256 = Some(v)])
          [] keyword.kw = "Sha384" -> Ok([self EXCEPT !.sha384 = Some(v)])
          [] keyword.kw = "Sha512" -> Ok([self EXCEPT !.sha512 = Some(v)])
          [] keyword.kw = "Size" -> Ok([self EXCEPT !.size = Some(v)])
          [] keyword.kw = "Time" ->
                Bind(SystemTime_add(v), LAMBDA time :
                     IF time.tag # "Ok" THEN time
                     ELSE Ok([self EXCEPT !.time = Some(time.val)]))
          [] keyword.kw = "Type" -> Ok([self EXCEPT !.file_type = Some(v)])
          [] keyword.kw = "Uid" -> Ok([self EXCEPT !.uid = Some(v)])
          [] keyword.kw = "Uname" -> Ok([self EXCEPT !.uname = Some(v)])

\* A faulty set_list, the keywords set last to first, so that the first
\* of two values for a field wins
RECURSIVE set_list_reversed(_, _)
set_list_reversed(self, keywords) ==
    IF keywords = <<>> THEN Ok(self)
    ELSE Bind(set(self, keywords[Len(keywords)]), LAMBDA params :
         IF params.tag # "Ok" THEN params
         ELSE Bind(SubSeq(keywords, 1, Len(keywords) - 1), LAMBDA rest :
              set_list_reversed(params.val, rest)))

\* Params::set_list
RECURSIVE set_list(_, _)
set_list(self, keywords) ==
    IF keywords = <<>> THEN Ok(self)
    ELSE Bind(set(self, Head(keywords)), LAMBDA params :
         IF params.tag # "Ok" THEN params
         ELSE Bind(Tail(keywords), LAMBDA rest : set_list(params.val, rest)))

\* What set_list leaves in *self: it sets the keywords in place, one
\* after the other, so the keywords before one whose set panics stay set
\* when the panic unwinds
RECURSIVE set_list_self(_, _)
set_list_self(self, keywords) ==
    IF keywords = <<>> THEN self
    ELSE Bind(set(self, Head(keywords)), LAMBDA params :
         IF params.tag # "Ok" THEN self
         ELSE Bind(Tail(keywords), LAMBDA rest : set_list_self(params.val, rest)))

----------------------------------------------------------------------------
(* std::path::PathBuf, for the paths the parser holds: cwd is the empty    *)
(* path or what getcwd returns (absolute, no "." or ".." component, no     *)
(* repeated or trailing separator), with components popped off.           *)

components(path) == filter_nonempty(split(path, "/"))

\* Path::file_name: the last component when it is a normal one
file_name(path) ==
    Bind(components(path), LAMBDA comps :
         IF comps = <<>> \/ comps[Len(comps)] = <<".",".">> THEN None
         ELSE Some(comps[Len(comps)]))

RECURSIVE trim_separators(_)
trim_separators(path) ==
    IF Len(path) > 1 /\ path[Len(path)] = "/"
    THEN Bind(SubSeq(path, 1, Len(path) - 1), LAMBDA shorter :
              trim_separators(shorter))
    ELSE path

\* A faulty pop, one that goes all the way up to the root
pop_to_root(path) == IF path # <<>> /\ path[1] = "/" THEN <<"/">> ELSE <<>>

\* PathBuf::pop: truncate to Path::parent, nothing when there is none
pop(path) ==
    Bind(components(path), LAMBDA comps :
         IF comps = <<>> THEN path
         ELSE trim_separators(SubSeq(path, 1, Len(path) - Len(comps[Len(comps)]))))

\* Path::join: PathBuf::push on a copy
join(self, path) ==
    IF path # <<>> /\ path[1] = "/" THEN path
    ELSE IF self # <<>> /\ self[Len(self)] # "/" THEN self \o <<"/">> \o path
    ELSE self \o path

----------------------------------------------------------------------------
(* lib.rs: MTree                                                           *)

Entry(path, params) == [path |-> path, params |-> params]

\* enum Error, with the From conversions the ? operator applies
Error_Io == [error |-> "Io", cause |-> ParserError("", <<>>, 0, 0)]
Error_Parser(e) == [error |-> "Parser", cause |-> e]

\* The io::Result<Vec<u8>> items the line source yields.
Line(bytes) == [io |-> "Ok", bytes |-> bytes]
IoError == [io |-> "Err", bytes |-> <<>>]

\* What a call of next_entry leaves: the value returned (or the panic) and
\* the two fields of self.
Returned(result, cwd, default_params) ==
    [result |-> result, cwd |-> cwd, default_params |-> default_params]

\* A faulty resolve, a Full path joined to cwd like a Relative one
resolve_joined(self, line) ==
    Bind(set_list(self.default_params, line.keywords), LAMBDA params :
         IF params.tag # "Ok" THEN params
         ELSE IF line.line = "Full"
         THEN Ok(Some(Entry(join(self.cwd, line.path), params.val)))
         ELSE IF file_name(self.cwd) = None
         THEN Panic("relative without a current working dir")
         ELSE Ok(Some(Entry(join(self.cwd, line.path), params.val))))

\* The arms of the match of MTree::next_entry for an entry line: the
\* default params are cloned and the keywords of the line set on the clone.
resolve(self, line) ==
    Bind(set_list(self.default_params, line.keywords), LAMBDA params :
         IF params.tag # "Ok" THEN params
         ELSE IF line.line = "Full" THEN Ok(Some(Entry(line.path, params.val)))
         ELSE IF file_name(self.cwd) = None
         THEN Panic("relative without a current working dir")
         ELSE Ok(Some(Entry(join(self.cwd, line.path), params.val))))

\* A faulty match, a comment reported as a line that does not parse
next_entry_match_comment(self, line) ==
    CASE line.line = "Blank" ->
            Returned(Ok(None), self.cwd, self.default_params)
      [] line.line = "Comment" ->
            Returned(Err(Error_Parser(ParserError("comment", line.text, 0, 0))),
                     self.cwd, self.default_params)
      [] line.line = "Special" /\ line.kind = "Set" ->
            Bind(set_list(self.default_params, line.keywords), LAMBDA params :
                 IF params.tag # "Ok"
                 THEN Returned(params, self.cwd,
                               set_list_self(self.default_params, line.keywords))
                 ELSE Returned(Ok(None), self.cwd, params.val))
      [] line.line = "Special" /\ line.kind = "Unset" ->
            Returned(Panic("not implemented"), self.cwd, self.default_params)
      [] line.line = "DotDot" ->
            Returned(Ok(None), pop(self.cwd), self.default_params)
      [] line.line \in {"Relative", "Full"} ->
            Returned(resolve(self, line), self.cwd, self.default_params)

\* A faulty match, a /set line replacing the default params by its own
\* keywords
next_entry_match_replace(self, line) ==
    CASE line.line \in {"Blank", "Comment"} ->
            Returned(Ok(None), self.cwd, self.default_params)
      [] line.line = "Special" /\ line.kind = "Set" ->
            Bind(set_list(Params_default, line.keywords), LAMBDA params :
                 IF params.tag # "Ok"
                 THEN Returned(params, self.cwd,
                               set_list_self(Params_default, line.keywords))
                 ELSE Returned(Ok(None), self.cwd, params.val))
      [] line.line = "Special" /\ line.kind = "Unset" ->
            Returned(Panic("not implemented"), self.cwd, self.default_params)
      [] line.line = "DotDot" ->
            Returned(Ok(None), pop(self.cwd), self.default_params)
      [] line.line \in {"Relative", "Full"} ->
            Returned(resolve(self, line), self.cwd, self.default_params)

\* A faulty match, an entry of type dir becoming the current directory
next_entry_match_enter(self, line) ==
    CASE line.line \in {"Blank", "Comment"} ->
            Returned(Ok(None), self.cwd, self.default_params)
      [] line.line = "Special" /\ line.kind = "Set" ->
            Bind(set_list(self.default_params, line.keywords), LAMBDA params :
                 IF params.tag # "Ok"
                 THEN Returned(params, self.cwd,
                               set_list_self(self.default_params, line.keywords))
                 ELSE Returned(Ok(None), self.cwd, params.val))
      [] line.line = "Special" /\ line.kind = "Unset" ->
            Returned(Panic("not implemented"), self.cwd, self.default_params)
      [] line.line = "DotDot" ->
            Returned(Ok(None), pop(self.cwd), self.default_params)
      [] line.line \in {"Relative", "Full"} ->
            Bind(resolve(self, line), LAMBDA entry :
                 IF entry.tag = "Ok" /\ entry.val[1].params.file_type = Some("Directory")
                 THEN Returned(entry, entry.val[1].path, self.default_params)
                 ELSE Returned(entry, self.cwd, self.default_params))

\* The match of MTree::next_entry. The Set arm works on self.default_params
\* itself, the arms of the entry lines on a clone that a panic drops.
next_entry_match(self, line) ==
    CASE line.line \in {"Blank", "Comment"} ->
            Returned(Ok(None), self.cwd, self.default_params)
      [] line.line = "Special" /\ line.kind = "Set" ->
            Bind(set_list(self.default_params, line.keywords), LAMBDA params :
                 IF params.tag # "Ok"
                 THEN Returned(params, self.cwd,
                               set_list_self(self.default_params, line.keywords))
                 ELSE Returned(Ok(None), self.cwd, params.val))
      [] line.line = "Special" /\ line.kind = "Unset" ->
            Returned(Panic("not implemented"), self.cwd, self.default_params)
      [] line.line = "DotDot" ->
            Returned(Ok(None), pop(self.cwd), self.default_params)
      [] line.line \in {"Relative", "Full"} ->
            Returned(resolve(self, line), self.cwd, self.default_params)

\* A faulty next_entry, a line that does not parse taking the default
\* params back to their initial value
next_entry_reset(self, item, debug_assertions) ==
    IF item.io # "Ok" THEN Returned(Err(Error_Io), self.cwd, self.default_params)
    ELSE Bind(MTreeLine_from_bytes(item.bytes, debug_assertions), LAMBDA parsed :
         IF parsed.tag = "Err"
         THEN Returned(Err(Error_Parser(parsed.err)), self.cwd, Params_default)
         ELSE IF parsed.tag # "Ok"
         THEN Returned(parsed, self.cwd, self.default_params)
         ELSE next_entry_match(self, parsed.val))

\* MTree::next_entry
next_entry(self, item, debug_assertions) ==
    IF item.io # "Ok" THEN Returned(Err(Error_Io), self.cwd, self.default_params)
    ELSE Bind(MTreeLine_from_bytes(item.bytes, debug_assertions), LAMBDA parsed :
         IF parsed.tag = "Err"
         THEN Returned(Err(Error_Parser(parsed.err)), self.cwd, self.default_params)
         ELSE IF parsed.tag # "Ok"
         THEN Returned(parsed, self.cwd, self.default_params)
         ELSE next_entry_match(self, parsed.val))

----------------------------------------------------------------------------
(* The parse session                                                       *)

\* the longest input the model reads
MaxLines == 3

\* What env::current_dir() can give from_reader: no directory at all (the
\* empty PathBuf of unwrap_or), the root, or a directory below it.
StartDirs == {<<>>, <<"/">>, <<"/","a">>, <<"/","a","/","b">>}

\* The lines of the crate's doc example that the resolved entry is stated
\* for (the entry line without its sha256digest).
DocSetLine == <<"/","s","e","t"," ","t","y","p","e","=","f","i","l","e"," ","u","i","d","=","0"," ","g","i","d","=","0"," ","m","o","d","e","=","6","4","4">>
DocEntryLine == <<".","/",".","B","U","I","L","D","I","N","F","O"," ","t","i","m","e","=","1","5","2","3","2","5","0","0","7","4",".","3","0","0","2","3","7","1","7","4"," ","s","i","z","e","=","8","6","0","2"," ","m","d","5","d","i","g","e","s","t","=","1","3","c","0","a","4","6","c","2","f","b","9","f","1","8","a","1","a","2","3","7","d","4","9","0","4","b","6","9","1","6","e">>

\* The io::Result<Vec<u8>> items the reader may yield.
Source ==
    { IoError } \cup
    { Line(l) : l \in {
        <<>>,
        <<" "," ">>,
        <<"#"," ","a"," ","c","o","m","m","e","n","t">>,
        <<".",".">>,
        <<".","."," ","s","i","z","e","=","x">>,
        DocSetLine,
        DocEntryLine,
        <<"/","s","e","t"," ","u","i","d","=","1"," ","n","o","c","h","a","n","g","e"," ","o","p","t","i","o","n","a","l">>,
        <<"/","s","e","t"," ","s","i","z","e","=","5"," ","i","g","n","o","r","e">>,
        <<"/","s","e","t"," ","u","i","d","=","x"," ","g","i","d","=","3">>,
        <<"/","u","n","s","e","t"," ","u","i","d">>,
        <<"/","u","s","r","/","b","i","n"," ","u","i","d","=","2">>,
        <<"f","o","o">>,
        <<"f","o","o"," ","s","i","z","e","=","3"," ","u","i","d","=","4"," ","s","i","z","e","=","7">>,
        <<"b","a","r"," ","b","o","g","u","s","_","k","e","y","=","1"," ","g","i","d","=","6">>,
        <<"b","a","z"," ","n","o","c","h","a","n","g","e"," ","o","p","t","i","o","n","a","l">>,
        <<"a","/","b"," ","u","i","d","=","9"," ","i","g","n","o","r","e">>,
        <<"s","u","b"," ","t","y","p","e","=","d","i","r">>,
        <<"b","i","g"," ","t","i","m","e","=","9","2","2","3","3","7","2","0","3","6","8","5","4","7","7","5","8","0","8",".","0">> } }

VARIABLES
    inner,              \* the line source: the lines it has yielded so far
    cwd,                \* MTree.cwd
    default_params,     \* MTree.default_params
    debug_assertions,   \* whether the build compiles debug_assert! in
    pc,                 \* "idle": the caller holds the iterator,
                        \* "loop": inside next(), "panicked": unwinding
    line,               \* the item the loop of this call took last, if any
    ret,                \* what the call of next() returned, "Pending"
                        \* while it runs
    start_dir,          \* history: the cwd from_reader started with
    ndotdot,            \* history: the DotDot lines resolved so far
    nyield,             \* history: the items next() has returned so far
    flags_set,          \* history: the value-less keywords of the /set
                        \* lines resolved so far
    ended,              \* history: next() has returned None
    fn,                 \* the function that is called: Iterator::next in
                        \* a parse session, or one decoder on its own
    arg,                \* the bytes handed to a decoder called on its own
    out,                \* what that decoder returned, "Pending" before
    shown               \* the Display rendering of a decoded value

\* the variables of a decoder called on its own; a parse session calls the
\* decoders through next() only and leaves these alone
decoder_vars == <<fn, arg, out, shown>>

vars == <<inner, cwd, default_params, debug_assertions, pc, line, ret,
          start_dir, ndotdot, nyield, flags_set, ended, fn, arg, out, shown>>

\* MTree::from_reader
from_reader(dir) ==
    /\ inner = [nread |-> 0]
    /\ cwd = dir
    /\ default_params = Params_default

Init ==
    /\ \E dir \in StartDirs : from_reader(dir) /\ start_dir = dir
    /\ debug_assertions \in BOOLEAN
    /\ pc = "idle"
    /\ line = None
    /\ ret = [tag |-> "Pending"]
    /\ ndotdot = 0
    /\ nyield = 0
    /\ flags_set = {}
    /\ ended = FALSE
    /\ fn = "Iterator::next"
    /\ arg = None
    /\ out = [tag |-> "Pending"]
    /\ shown = None

\* The caller asks for the next item.
Call ==
    /\ pc = "idle"
    /\ pc' = "loop"
    /\ line' = None
    /\ ret' = [tag |-> "Pending"]
    /\ UNCHANGED <<inner, cwd, default_params, debug_assertions, start_dir,
                   ndotdot, nyield, flags_set, ended>>
    /\ UNCHANGED decoder_vars

\* The words of a line
Words(item) == filter_nonempty(split(item.bytes, " "))

\* The line is a `..` line
IsDotDot(item) == item.io = "Ok" /\ Words(item) # <<>> /\ Words(item)[1] = <<".",".">>

\* The line is a /set line
IsSet(item) == item.io = "Ok" /\ Words(item) # <<>> /\ Words(item)[1] = <<"/","s","e","t">>

\* The value-less keywords among the words of a line: Keyword::from_bytes
\* takes the key before the first `=` and never looks at what follows it
Flags(item) ==
    {f \in {<<"i","g","n","o","r","e">>, <<"n","o","c","h","a","n","g","e">>, <<"o","p","t","i","o","n","a","l">>} :
        \E i \in 2..Len(Words(item)) : splitn(2, Words(item)[i], "=")[1] = f}

\* One turn of the loop of Iterator::next: self.inner.next() is Some(item),
\* an item of `source`; next_entry resolves it, and the match returns or
\* goes round again. MTree keeps no record of an end of input it has seen:
\* every call asks the reader again, and a reader that has more to give by
\* then (a file that has grown, a terminal) is read on.
Read(source) ==
    /\ pc = "loop"
    /\ inner.nread < MaxLines
    /\ \E item \in source :
         \E r \in {next_entry([cwd |-> cwd, default_params |-> default_params],
                            item, debug_assertions)} :
             /\ inner' = [inner EXCEPT !.nread = @ + 1]
             /\ line' = Some(item)
             /\ cwd' = r.cwd
             /\ default_params' = r.default_params
             /\ ndotdot' = IF IsDotDot(item) THEN ndotdot + 1 ELSE ndotdot
             /\ flags_set' = IF IsSet(item) /\ r.result = Ok(None)
                             THEN flags_set \cup Flags(item)
                             ELSE flags_set
             /\ CASE r.result.tag = "Panic" ->
                       /\ pc' = "panicked"
                       /\ ret' = r.result
                       /\ nyield' = nyield
                  [] r.result.tag = "Err" ->
                       /\ pc' = "idle"
                       /\ ret' = [tag |-> "Some", item |-> r.result]
                       /\ nyield' = nyield + 1
                  [] r.result.tag = "Ok" /\ r.result.val # None ->
                       /\ pc' = "idle"
                       /\ ret' = [tag |-> "Some", item |-> Ok(r.result.val[1])]
                       /\ nyield' = nyield + 1
                  [] OTHER ->
                       /\ pc' = "loop"
                       /\ ret' = ret
                       /\ nyield' = nyield
    /\ UNCHANGED <<debug_assertions, start_dir, ended>>
    /\ UNCHANGED decoder_vars

\* The turn of the loop for a reader of any of the lines of Source
Step == Read(Source)

\* self.inner.next() is None, the reader has nothing to give for now: the
\* loop ends and next() returns None.
Exhausted ==
    /\ pc = "loop"
    /\ pc' = "idle"
    /\ ret' = [tag |-> "None"]
    /\ ended' = TRUE
    /\ UNCHANGED <<inner, cwd, default_params, debug_assertions, line,
                   start_dir, ndotdot, nyield, flags_set>>
    /\ UNCHANGED decoder_vars

Next == Call \/ Step \/ Exhausted

Spec == Init /\ [][Next]_vars

\* The items of a finite input whose end is looked at: a reader error, lines
\* that yield nothing, an entry or an error, and lines the parser panics on.
EndLines ==
    { IoError } \cup
    { Line(l) : l \in {
        <<>>,
        <<".",".">>,
        DocSetLine,
        <<"/","s","e","t"," ","u","i","d","=","x"," ","g","i","d","=","3">>,
        <<"/","u","n","s","e","t"," ","u","i","d">>,
        <<"/","u","s","r","/","b","i","n"," ","u","i","d","=","2">>,
        <<"f","o","o">>,
        <<"b","a","r"," ","b","o","g","u","s","_","k","e","y","=","1"," ","g","i","d","=","6">> } }

\* The turn of the loop for such a reader when the input is finite, a
\* byte slice or a file that does not grow: read() gives Ok(0) at the end
\* of the input on every call, so once io::Split has answered None it has
\* no line to give any more.
EndStep == ~ended /\ Read(EndLines)

EndNext == Call \/ EndStep \/ Exhausted

\* The parse session over a finite input, with a caller that keeps calling
\* next() and the loop inside it running on.
FairSpec == Init /\ [][EndNext]_vars /\ WF_vars(EndNext)

\* The lines of a reader of directives: /set lines that name the same and
\* different fields (md5 by both of its names, a flag with a value that
\* the decoder ignores), lines that begin with `/`
\* without being a directive, and one entry line.
Directives ==
    { Line(l) : l \in {
        DocSetLine,
        <<"/","s","e","t"," ","u","i","d","=","1"," ","n","o","c","h","a","n","g","e"," ","o","p","t","i","o","n","a","l">>,
        <<"/","s","e","t"," ","s","i","z","e","=","5"," ","i","g","n","o","r","e">>,
        <<"/","s","e","t"," ","u","i","d","=","x"," ","g","i","d","=","3">>,
        <<"/","s","e","t"," ","i","g","n","o","r","e","=","1"," ","g","i","d","=","4">>,
        <<"/","s","e","t"," ","m","d","5","=","0","0","1","1","2","2","3","3","4","4","5","5","6","6","7","7","8","8","9","9","a","a","b","b","c","c","d","d","e","e","f","f">>,
        <<"/","s","e","t"," ","m","d","5","d","i","g","e","s","t","=","1","3","c","0","a","4","6","c","2","f","b","9","f","1","8","a","1","a","2","3","7","d","4","9","0","4","b","6","9","1","6","e"," ","u","i","d","=","7"," ","u","i","d","=","8">>,
        <<"/","s","e","t">>,
        <<"/","u","n","s","e","t"," ","u","i","d">>,
        <<"/">>,
        <<"/","S","e","t"," ","u","i","d","=","2">>,
        <<"/","u","s","r","/","b","i","n"," ","u","i","d","=","2">>,
        <<"/","u","s","r","/","b","i","n"," ","b","o","g","u","s","_","k","e","y","=","1">>,
        <<"f","o","o"," ","u","i","d","=","3">> } }

\* The turn of the loop for a reader of directives
DirectiveStep == Read(Directives)

DirectiveNext == Call \/ DirectiveStep \/ Exhausted

\* The parse session of a reader of directives
DirectiveSpec == Init /\ [][DirectiveNext]_vars

\* The lines of a reader of times: entries with a full path and a time
\* whose nanoseconds are short, at and over 10^9, at and over the end of
\* the u32, whose seconds are at the end of the range of a SystemTime and
\* of the u64; a /set line with a time, one whose time overflows after
\* another keyword has been set, and an entry without one.
TimeLines ==
    { Line(l) : l \in {
        <<"x","/","t"," ","t","i","m","e","=","1",".","5">>,
        <<"x","/","t"," ","t","i","m","e","=","1",".","5","0">>,
        <<"x","/","t"," ","t","i","m","e","=","1",".","0","5">>,
        <<"x","/","t"," ","t","i","m","e","=","1",".","9","9","9","9","9","9","9","9","9">>,
        <<"x","/","t"," ","t","i","m","e","=","1",".","1","0","0","0","0","0","0","0","0","0">>,
        <<"x","/","t"," ","t","i","m","e","=","0",".","4","2","9","4","9","6","7","2","9","5">>,
        <<"x","/","t"," ","t","i","m","e","=","1",".","4","2","9","4","9","6","7","2","9","6">>,
        <<"x","/","t"," ","t","i","m","e","=","1","5","2","3","2","5","0","0","7","4",".","3","0","0","2","3","7","1","7","4">>,
        <<"/","s","e","t"," ","t","i","m","e","=","7",".","2","0","0","0","0","0","0","0","0","1">>,
        <<"/","s","e","t"," ","u","i","d","=","5"," ","t","i","m","e","=","9","2","2","3","3","7","2","0","3","6","8","5","4","7","7","5","8","0","8",".","0">>,
        <<"x","/","t">>,
        <<"x","/","t"," ","t","i","m","e","=","9","2","2","3","3","7","2","0","3","6","8","5","4","7","7","5","8","0","7",".","9","9","9","9","9","9","9","9","9">>,
        <<"x","/","t"," ","t","i","m","e","=","9","2","2","3","3","7","2","0","3","6","8","5","4","7","7","5","8","0","7",".","1","0","0","0","0","0","0","0","0","0">>,
        <<"x","/","t"," ","t","i","m","e","=","1","8","4","4","6","7","4","4","0","7","3","7","0","9","5","5","1","6","1","5",".","4","2","9","4","9","6","7","2","9","5">> } }

\* The turn of the loop for a reader of times
TimeStep == Read(TimeLines)

TimeNext == Call \/ TimeStep \/ Exhausted

\* The parse session of a reader of times
TimeSpec == Init /\ [][TimeNext]_vars

----------------------------------------------------------------------------
(* The decoders called on their own                                        *)

\* the longest of the short strings the decoders are given
MaxLen == 3

\* all strings over `alphabet` of length at most n
RECURSIVE Strings(_, _)
Strings(alphabet, n) ==
    IF n = 0 THEN {<<>>}
    ELSE Bind(Strings(alphabet, n - 1), LAMBDA shorter :
         shorter \cup {Append(s, ch) : s \in shorter, ch \in alphabet})

\* s with the byte at position p (from 1) replaced by ch
Replace(s, p, ch) == [s EXCEPT ![p] = ch]

\* x / d and x % d for a small d, from limb i on with remainder r so far
RECURSIVE LimbDivFrom(_, _, _, _)
LimbDivFrom(x, d, i, r) ==
    IF i > Len(x) THEN [limbs |-> x, rem |-> r]
    ELSE Bind(r * LimbBase + x[i], LAMBDA t :
         Bind([x EXCEPT ![i] = t \div d], LAMBDA y :
         LimbDivFrom(y, d, i + 1, t % d)))

\* The decimal digits of x, as uN's Display writes them: the encoding that
\* from_dec is the decoder of
RECURSIVE to_dec_loop(_, _)
to_dec_loop(x, digits) ==
    Bind(LimbDivFrom(x, 10, 1, 0), LAMBDA qr :
    Bind(<<DecDigits[qr.rem + 1]>> \o digits, LAMBDA longer :
         IF qr.limbs = Zero(Len(x)) THEN longer
         ELSE to_dec_loop(qr.limbs, longer)))

to_dec(x) == to_dec_loop(x, <<>>)

\* uN::MAX
MaxOf(width) == [i \in 1..width |-> LimbBase - 1]

\* Values of uN spread over the width, 0 and uN::MAX among them
Values(width) == [1..width -> {0, 1, LimbBase - 1}]

\* The byte strings from_dec is given: the decimal forms of the values, with
\* and without a leading zero, the strings around uN::MAX (its last digit
\* varied, one more digit, one byte that is no digit) and all short strings
DecInputs(width) ==
    Bind(to_dec(MaxOf(width)), LAMBDA max :
        {to_dec(v) : v \in Values(width)}
        \cup {<<"0">> \o to_dec(v) : v \in Values(width)}
        \cup {Replace(max, Len(max), DecDigits[d]) : d \in 1..10}
        \cup {Append(max, DecDigits[d]) : d \in 1..10}
        \cup {Replace(max, p, "x") : p \in 1..Len(max)}
        \cup {Append(max, "x"), Append(Append(max, "0"), "x")}
        \cup Strings({"0", "9", "/", ":"}, MaxLen))

\* v as n hex digits, and the hex form of a sequence of such values
HexDigitsOf(v, n, table) ==
    [k \in 1..n |-> table[((v \div (16 ^ (n - k))) % 16) + 1]]

to_hex(xs, n, table) ==
    [p \in 1..(n * Len(xs)) |->
        HexDigitsOf(xs[((p - 1) \div n) + 1], n, table)[((p - 1) % n) + 1]]

LowerTable == DecDigits \o HexLower
UpperTable == DecDigits \o HexUpper

\* The arrays FromHex is implemented for, and the number of their bytes
ArrayFns == {"[u8; 20]::from_hex", "[u8; 32]::from_hex",
             "Array48::from_hex", "Array64::from_hex"}

ArraySize(f) ==
    CASE f = "[u8; 20]::from_hex" -> 20
      [] f = "[u8; 32]::from_hex" -> 32
      [] f = "Array48::from_hex" -> 48
      [] f = "Array64::from_hex" -> 64

\* The elements a hex decoder fills (the bytes of an array, the 16-bit
\* limbs of the u128): their number and the hex digits of each
HexShape(f) ==
    IF f = "u128::from_hex" THEN [size |-> u128, digits |-> 4]
    ELSE [size |-> ArraySize(f), digits |-> 2]

\* Values of a digest that use every hex digit
HexValues(shape) ==
    {[i \in 1..shape.size |-> (a * i + b) % (16 ^ shape.digits)] :
        a \in {0, 1, 4661}, b \in {0, 43981, 16 ^ shape.digits - 1}}

\* The value whose hex form the faulty inputs are made of
HexSample(shape) == [i \in 1..shape.size |-> (4661 * i + 43981) % (16 ^ shape.digits)]

\* The byte strings from_hex is given: the hex forms of the values in
\* either case, one sample with one or two bytes that are no hex digit (the
\* neighbours of the digit ranges among them), and samples that are too
\* short or too long
HexInputs(shape) ==
    Bind(to_hex(HexSample(shape), shape.digits, LowerTable), LAMBDA good :
        {to_hex(v, shape.digits, LowerTable) : v \in HexValues(shape)}
        \cup {to_hex(v, shape.digits, UpperTable) : v \in HexValues(shape)}
        \cup {Replace(good, p, "g") : p \in 1..Len(good)}
        \cup {Replace(Replace(good, Len(good), "G"), p, "g") : p \in 1..Len(good)}
        \cup {Replace(good, 2, ch) : ch \in {"/", ":", "@", "G", " "}}
        \cup {SubSeq(good, 1, n) : n \in {0, 1, Len(good) - 2, Len(good) - 1}}
        \cup {good \o tail : tail \in {<<"0">>, <<"0", "0">>, <<"g">>}})

\* The byte strings parse_time is given: all short strings, the time of the
\* crate's doc example, and the ends of the ranges of both halves
TimeInputs ==
    Strings({"0", "7", ".", "x"}, MaxLen) \cup
    { <<"1","5","2","3","2","5","0","0","7","4",".","3","0","0","2","3","7","1","7","4">>, <<"1","5","2","3","2","5","0","0","7","4">>, <<"1","5","2","3","2","5","0","0","7","4",".">>, <<".","5">>,
      <<"1",".","9","9","9","9","9","9","9","9","9">>, <<"1",".","1","0","0","0","0","0","0","0","0","0">>, <<"1",".","4","2","9","4","9","6","7","2","9","5">>, <<"1",".","4","2","9","4","9","6","7","2","9","6">>,
      <<"1","8","4","4","6","7","4","4","0","7","3","7","0","9","5","5","1","6","1","5",".","0">>, <<"1","8","4","4","6","7","4","4","0","7","3","7","0","9","5","5","1","6","1","6",".","0">>,
      <<"1","8","4","4","6","7","4","4","0","7","3","7","0","9","5","5","1","6","1","5",".","9","9","9","9","9","9","9","9","9">>, <<"1","8","4","4","6","7","4","4","0","7","3","7","0","9","5","5","1","6","1","5",".","1","0","0","0","0","0","0","0","0","0">>,
      <<"9","2","2","3","3","7","2","0","3","6","8","5","4","7","7","5","8","0","7",".","0">>, <<"9","2","2","3","3","7","2","0","3","6","8","5","4","7","7","5","8","0","8",".","0">>,
      <<"1",".","5",".","3">>, <<"1",",","5">>, <<"-","1",".","5">>, <<"1","."," ","5">>, <<"1",".","5","x">> }

\* The byte strings FileMode::from_bytes is given: every triple of octal
\* digits, and the short strings with bytes that are no octal digit
ModeInputs ==
    {<<OctDigits[i], OctDigits[j], OctDigits[k]>> : i, j, k \in 1..8}
    \cup Strings({"0", "7", "8", "/", "r"}, MaxLen + 1)

\* The byte strings DeviceRef::from_bytes is given: every format name and
\* some that are none, with zero to five fields after them
DeviceInputs ==
    {name \o tail :
        name \in {FormatNames[i][1] : i \in 1..Len(FormatNames)}
                 \cup {<<>>, <<"L","i","n","u","x">>, <<"L","I","N","U","X">>, <<"l","i","n","u">>, <<"l","i","n","u","x","x">>,
                       <<"b","s","d">>, <<"3","8","6">>, <<" ","l","i","n","u","x">>, <<"s","v","r","5">>},
        tail \in {<<>>, <<",">>, <<",","8">>, <<",","8",",">>, <<",",",">>, <<",","8",",","1">>, <<",",",",",">>,
                  <<",","8",",","1",",">>, <<",","8",",","1",",","0">>, <<",","8",",","1",",","0",",","5">>, <<",","8",",","1",",","0",",","5",",","6">>}}

\* The keys of Keyword::from_bytes that take a value
ValueKeys ==
    { <<"c","k","s","u","m">>, <<"d","e","v","i","c","e">>, <<"c","o","n","t","e","n","t","s">>, <<"f","l","a","g","s">>, <<"g","i","d">>, <<"g","n","a","m","e">>,
      <<"i","n","o","d","e">>, <<"l","i","n","k">>, <<"m","d","5">>, <<"m","d","5","d","i","g","e","s","t">>, <<"m","o","d","e">>, <<"n","l","i","n","k">>,
      <<"r","e","s","d","e","v","i","c","e">>, <<"r","m","d","1","6","0">>, <<"r","m","d","1","6","0","d","i","g","e","s","t">>, <<"r","i","p","e","m","d","1","6","0","d","i","g","e","s","t">>,
      <<"s","h","a","1">>, <<"s","h","a","1","d","i","g","e","s","t">>, <<"s","h","a","2","5","6">>, <<"s","h","a","2","5","6","d","i","g","e","s","t">>, <<"s","h","a","3","8","4">>,
      <<"s","h","a","3","8","4","d","i","g","e","s","t">>, <<"s","h","a","5","1","2">>, <<"s","h","a","5","1","2","d","i","g","e","s","t">>, <<"s","i","z","e">>, <<"t","i","m","e">>,
      <<"t","y","p","e">>, <<"u","i","d">>, <<"u","n","a","m","e">> }

\* The words Keyword::from_bytes is given: each key on its own, with `=` and
\* nothing after it, and with short values
KeywordInputs ==
    {key \o val :
        key \in ValueKeys \cup {<<"i","g","n","o","r","e">>, <<"n","o","c","h","a","n","g","e">>, <<"o","p","t","i","o","n","a","l">>, <<"b","o","g","u","s","_","k","e","y">>},
        val \in {<<>>, <<"=">>, <<"=","0">>, <<"=","6","4","4">>, <<"=","d","i","r">>, <<"=","1",".","5">>, <<"=","a","=","b">>,
                 <<"=","l","i","n","u","x",",","8",",","1">>}}

\* The decoders and the byte strings each one is given
Fns == {"u64::from_dec", "u32::from_dec", "u128::from_hex", "parse_time",
        "FileMode::from_bytes", "DeviceRef::from_bytes", "Keyword::from_bytes"}
       \cup ArrayFns

Inputs(f) ==
    CASE f = "u64::from_dec" -> DecInputs(u64)
      [] f = "u32::from_dec" -> DecInputs(u32)
      [] f \in {"u128::from_hex"} \cup ArrayFns -> HexInputs(HexShape(f))
      [] f = "parse_time" -> TimeInputs
      [] f = "FileMode::from_bytes" -> ModeInputs
      [] f = "DeviceRef::from_bytes" -> DeviceInputs
      [] f = "Keyword::from_bytes" -> KeywordInputs

\* One decoder is about to be called with one byte string; no parse session
\* runs.
DecodeInit ==
    /\ from_reader(<<>>) /\ start_dir = <<>>
    /\ debug_assertions = FALSE
    /\ pc = "idle"
    /\ line = None
    /\ ret = [tag |-> "Pending"]
    /\ ndotdot = 0
    /\ nyield = 0
    /\ flags_set = {}
    /\ ended = FALSE
    /\ fn \in Fns
    /\ arg \in Inputs(fn)
    /\ out = [tag |-> "Pending"]
    /\ shown = None

\* the call of the decoder returns `result`
Returns(result) ==
    /\ out.tag = "Pending"
    /\ out' = result
    /\ UNCHANGED <<fn, arg, shown>>
    /\ UNCHANGED <<inner, cwd, default_params, debug_assertions, pc, line, ret,
                   start_dir, ndotdot, nyield, flags_set, ended>>

DecodeDec ==
    /\ fn \in {"u64::from_dec", "u32::from_dec"}
    /\ Returns(from_dec(arg, IF fn = "u64::from_dec" THEN u64 ELSE u32))

DecodeHex ==
    \/ fn = "u128::from_hex" /\ Returns(from_hex_u128(arg))
    \/ fn \in ArrayFns /\ Returns(from_hex_arr(arg, ArraySize(fn)))

DecodeTime == fn = "parse_time" /\ Returns(parse_time(arg))

DecodeMode == fn = "FileMode::from_bytes" /\ Returns(FileMode_from_bytes(arg))

\* format!("{}", mode) of a decoded mode
ShowMode ==
    /\ fn = "FileMode::from_bytes"
    /\ out.tag = "Ok"
    /\ shown = None
    /\ shown' = Some(FileMode_fmt(out.val))
    /\ UNCHANGED <<fn, arg, out>>
    /\ UNCHANGED <<inner, cwd, default_params, debug_assertions, pc, line, ret,
                   start_dir, ndotdot, nyield, flags_set, ended>>

DecodeDevice == fn = "DeviceRef::from_bytes" /\ Returns(DeviceRef_from_bytes(arg))

DecodeKeyword == fn = "Keyword::from_bytes" /\ Returns(Keyword_from_bytes(arg))

DecodeNext ==
    \/ DecodeDec
    \/ DecodeHex
    \/ DecodeTime
    \/ DecodeMode
    \/ ShowMode
    \/ DecodeDevice
    \/ DecodeKeyword

DecodeSpec == DecodeInit /\ [][DecodeNext]_vars
----------------------------------------------------------------------------
(* Properties of the parse session                                         *)

\* The step reads a line
ReadsLine == inner'.nread = inner.nread + 1

\* The step returns an item to the caller, an entry, an error
YieldsItem == nyield' = nyield + 1 /\ ret'.tag = "Some"
YieldsEntry == YieldsItem /\ ret'.item.tag = "Ok"
YieldsError == YieldsItem /\ ret'.item.tag = "Err"

\* The keyword list MTreeLine::from_bytes hands over for a line
KeywordsOf(item) == MTreeLine_from_bytes(item.bytes, debug_assertions).val.keywords

\* params with the first n of the keywords set on it, one after the other
RECURSIVE Layered(_, _, _)
Layered(params, keywords, n) ==
    IF n = 0 THEN params
    ELSE set(Layered(params, keywords, n - 1), keywords[n]).val

C1_Step ==
    /\ YieldsEntry =>
         /\ ret'.item.val.params =
                Layered(default_params, KeywordsOf(line'[1]),
                        Len(KeywordsOf(line'[1])))
         /\ default_params' = default_params
    /\ default_params' # default_params => ReadsLine /\ IsSet(line'[1])

\* C1: an entry's params are the default params in force when its line is
\* read with the line's keywords set on top in token order; the entry leaves
\* the default params as they were, and only a /set line changes them.
C1_EntryLayersOverDefaults == [][C1_Step]_vars

\* An entry whose line overrides a /set default (uid) and sets one field
\* twice (size), with the default still in force afterwards.
C1_Witness ==
    /\ pc = "idle"
    /\ ret.tag = "Some"
    /\ ret.item.tag = "Ok"
    /\ line = Some(Line(<<"f","o","o"," ","s","i","z","e","=","3"," ","u","i","d","=","4"," ","s","i","z","e","=","7">>))
    /\ default_params.uid = Some(<<0, 0, 0, 1>>)
    /\ ret.item.val.params.uid = Some(<<0, 0, 0, 4>>)
    /\ ret.item.val.params.size = Some(<<0, 0, 0, 7>>)

\* The doc example's /set line was read last and its entry line is read now
C2_Lines ==
    /\ line = Some(Line(DocSetLine))
    /\ line' = Some(Line(DocEntryLine))
    /\ ReadsLine

\* The fields the doc example's entry is stated to have
C2_Fields(params) ==
    /\ params.file_type = Some("File")
    /\ params.uid = Some(<<0, 0, 0, 0>>)
    /\ params.gid = Some(<<0, 0, 0, 0>>)
    /\ params.mode = Some([owner |-> 6, group |-> 4, other |-> 4])
    /\ params.size = Some(<<0, 0, 0, 8602>>)
    /\ params.time = Some([secs |-> <<0, 0, 23242, 62362>>, nanos |-> 300237174])
    /\ params.md5 = Some(<<5056, 42092, 12217, 61834, 6691, 32073, 1206, 37230>>)

C2_Step ==
    C2_Lines =>
        /\ YieldsEntry
        /\ pc' = "idle"
        /\ ret'.item.val.path = <<".","/",".","B","U","I","L","D","I","N","F","O">>
        /\ C2_Fields(ret'.item.val.params)

\* C2: the doc example's entry line, read after its /set line, yields one
\* entry with the path `./.BUILDINFO` as written on the line, file_type
\* file, uid and gid 0, mode 644 octal, size 8602, time 1523250074 s
\* 300237174 ns and the md5 of the hex string.
C2_DocExampleEntry == [][C2_Step]_vars

C2_Witness ==
    /\ pc = "idle"
    /\ inner.nread = 2
    /\ nyield = 1
    /\ line = Some(Line(DocEntryLine))
    /\ ret.tag = "Some"
    /\ ret.item.tag = "Ok"
    /\ ret.item.val.params.file_type = Some("File")
    /\ cwd = <<"/","a","/","b">>

C2_Original_Step ==
    C2_Lines =>
        /\ YieldsEntry
        /\ pc' = "idle"
        /\ ret'.item.val.path = join(cwd, <<".","B","U","I","L","D","I","N","F","O">>)
        /\ C2_Fields(ret'.item.val.params)

\* C2 as stated: the same entry, its path the current directory joined with
\* `.BUILDINFO`.
C2_Original_PathUnderCwd == [][C2_Original_Step]_vars

\* The line is an entry line or a /set line with a word after the first
\* that Keyword::from_bytes rejects
HasFailingKeyword(item) ==
    /\ item.io = "Ok"
    /\ Words(item) # <<>>
    /\ Words(item)[1][1] # "#"
    /\ Words(item)[1] # <<".",".">>
    /\ Words(item)[1][1] = "/" => Words(item)[1] = <<"/","s","e","t">>
    /\ \E i \in 2..Len(Words(item)) : Keyword_from_bytes(Words(item)[i]).tag # "Ok"

C3_Original_Step ==
    ReadsLine /\ HasFailingKeyword(line'[1]) =>
        /\ YieldsError
        /\ default_params' = default_params

\* C3: an entry line or /set line with a keyword that fails to decode
\* yields an error: no entry is emitted for it and none of its keywords
\* reaches the default params.
C3_Original_KeywordErrorFailsLine == [][C3_Original_Step]_vars

\* The line is a /unset line
IsUnset(item) ==
    item.io = "Ok" /\ Words(item) # <<>> /\ Words(item)[1] = <<"/","u","n","s","e","t">>

C4_Original_Step ==
    ReadsLine /\ IsUnset(line'[1]) =>
        /\ YieldsError
        /\ pc' = "idle"
        /\ cwd' = cwd
        /\ default_params' = default_params

\* C4: a /unset line yields an error value, leaves the current directory
\* and the default params unchanged, and the lines after it can be pulled.
C4_Original_UnsetIsError == [][C4_Original_Step]_vars

\* C5: every call of next() returns an entry, an error value or
\* end-of-stream; no line makes the parser panic.
C5_Original_NoPanic ==
    /\ pc # "panicked"
    /\ ret.tag \in {"Pending", "None", "Some"}

\* C6: the ignore, no_change and optional fields of an entry are true
\* exactly when their keyword occurred in an earlier /set line or on the
\* entry line itself.
C6_Original_FlagsBecomeTrue ==
    (pc = "idle" /\ ret.tag = "Some" /\ ret.item.tag = "Ok") =>
        /\ ret.item.val.params.ignore
             <=> <<"i","g","n","o","r","e">> \in flags_set \cup Flags(line[1])
        /\ ret.item.val.params.no_change
             <=> <<"n","o","c","h","a","n","g","e">> \in flags_set \cup Flags(line[1])
        /\ ret.item.val.params.optional
             <=> <<"o","p","t","i","o","n","a","l">> \in flags_set \cup Flags(line[1])

\* What MTreeLine::from_bytes makes of a line
Parsed(item) == MTreeLine_from_bytes(item.bytes, debug_assertions)

\* The kind of a line: "Fails" when the reader gave an error or the line
\* does not classify, "Panics" when classifying it panics, else the kind
\* of line it is, a directive by its name
KindOf(item) ==
    IF item.io # "Ok" THEN "Fails"
    ELSE Bind(Parsed(item), LAMBDA parsed :
         IF parsed.tag = "Err" THEN "Fails"
         ELSE IF parsed.tag = "Panic" THEN "Panics"
         ELSE IF parsed.val.line = "Special" THEN parsed.val.kind
         ELSE parsed.val.line)

\* The line fails
Fails(item) == KindOf(item) = "Fails"

C7_Step ==
    /\ nyield' \in {nyield, nyield + 1}
    /\ nyield' = nyield + 1 => ReadsLine /\ ret'.tag = "Some"
    /\ nyield' <= inner'.nread
    /\ ReadsLine =>
         \E kind \in {KindOf(line'[1])} :
            /\ kind = "Fails" => YieldsError
            /\ kind \in {"Blank", "Comment", "DotDot"} =>
                   nyield' = nyield /\ pc' = "loop"
            /\ kind = "Set" => nyield' = nyield
            /\ kind = "Full" /\ pc' # "panicked" =>
                   YieldsEntry /\ ret'.item.val.path = Words(line'[1])[1]
            /\ kind = "Relative" /\ pc' # "panicked" =>
                   YieldsEntry
                   /\ ret'.item.val.path = join(cwd, Words(line'[1])[1])

\* C7: the items come in line order: a step yields at most one item, for
\* the line it has just read; an entry line that resolves yields its entry,
\* a failing line its error, blank, comment, /set and `..` lines nothing;
\* the items yielded never outnumber the lines read.
C7_OneItemPerLineInOrder == [][C7_Step]_vars

\* A skipped line, an entry and an error, in three lines
C7_Witness ==
    /\ pc = "idle"
    /\ inner.nread = 3
    /\ nyield = 2
    /\ ret.tag = "Some"
    /\ ret.item.tag = "Err"
    /\ default_params # Params_default

\* The line is a Relative entry line
IsRelative(item) ==
    /\ item.io = "Ok"
    /\ Words(item) # <<>>
    /\ Words(item)[1][1] # "#"
    /\ Words(item)[1] # <<".",".">>
    /\ ~Contains(Words(item)[1], "/")

\* The keywords of the line decode and can be set on the default params
Resolves(item) ==
    /\ Parsed(item).tag = "Ok"
    /\ set_list(default_params, Parsed(item).val.keywords).tag = "Ok"

\* path with its last k components removed
RECURSIVE Popped(_, _)
Popped(path, k) == IF k = 0 THEN path ELSE Popped(pop(path), k - 1)

C8_Original_Step ==
    /\ ReadsLine
    /\ IsRelative(line'[1])
    /\ Resolves(line'[1])
    /\ ndotdot >= 1
    /\ ndotdot <= Len(components(start_dir))
    => /\ YieldsEntry
       /\ ret'.item.val.path = join(Popped(start_dir, ndotdot), Words(line'[1])[1])

\* C8: a Relative line `name` read after k `..` lines, each popping a
\* directory that has a parent, yields the starting directory with its last
\* k components removed, joined with name.
C8_Original_RelativeAfterPop == [][C8_Original_Step]_vars

C9_Step ==
    YieldsError =>
        /\ ReadsLine
        /\ Fails(line'[1])
        /\ ret'.item.err.error = (IF line'[1].io # "Ok" THEN "Io" ELSE "Parser")
        /\ cwd' = cwd
        /\ default_params' = default_params
        /\ pc' = "idle"

\* C9: an error does not end the stream: the step that yields an error has
\* read one failing line, hands the iterator back ready for the next line,
\* and leaves the current directory and the default params as they were
\* before the line was read.
C9_ErrorLeavesStateAndStream == [][C9_Step]_vars

\* An error yielded after a /set line and a `..` line have taken effect
C9_Witness ==
    /\ pc = "idle"
    /\ inner.nread = 3
    /\ ret.tag = "Some"
    /\ ret.item.tag = "Err"
    /\ ret.item.err.error = "Parser"
    /\ default_params.uid = Some(<<0, 0, 0, 1>>)
    /\ start_dir = <<"/","a","/","b">>
    /\ cwd = <<"/","a">>

C10_Step ==
    /\ inner'.nread \in {inner.nread, inner.nread + 1}
    /\ nyield' # nyield => ReadsLine /\ nyield' = nyield + 1 /\ pc' = "idle"
    /\ nyield' <= inner'.nread
    /\ ended =>
         /\ ret'.tag \in {"Pending", "None"}
         /\ nyield' = nyield
         /\ inner'.nread = inner.nread
         /\ cwd' = cwd
         /\ default_params' = default_params

\* C10: over a finite input a call reads one line at a time and returns at
\* the first line that yields an item; the items never outnumber the lines
\* of the input; next() comes to return end-of-stream, and once it has,
\* every later call returns it again, reading and yielding nothing more.
C10_Original_FiniteAndFused ==
    /\ [][C10_Step]_vars
    /\ <>ended

----------------------------------------------------------------------------
(* Claims about the decoders, under DecodeSpec                             *)

\* the decoder `f` has returned
Decoded(f) == fn = f /\ out.tag # "Pending"

\* the bytes of s are all taken from `digits`
AllIn(s, digits) == \A i \in 1..Len(s) : \E d \in 1..Len(digits) : digits[d] = s[i]

\* the offset, from 0, of the first byte of s that is not taken from `digits`
FirstNotIn(s, digits) ==
    (CHOOSE i \in 1..Len(s) :
        /\ ~AllIn(<<s[i]>>, digits)
        /\ AllIn(SubSeq(s, 1, i - 1), digits)) - 1

\* C11 (as stated): a word made of a key that requires a value and no `=`,
\* or of such a key and `=` with nothing after it, never decodes: an empty
\* value is never taken as the number 0 or as an empty byte string.
C11_Original_EmptyValueFails ==
    (/\ Decoded("Keyword::from_bytes")
     /\ \E key \in ValueKeys : arg = key \/ arg = Append(key, "="))
    => out.tag = "Err"

\* a digit string without its leading zeros, one digit at least
RECURSIVE StripZeros(_)
StripZeros(s) ==
    IF Len(s) > 1 /\ s[1] = "0" THEN StripZeros(Tail(s)) ELSE s

\* s <= t for two digit strings of the same length
RECURSIVE DigitsLe(_, _)
DigitsLe(s, t) ==
    IF s = <<>> THEN TRUE
    ELSE IF s[1] # t[1] THEN PosIn(s[1], DecDigits) < PosIn(t[1], DecDigits)
    ELSE DigitsLe(Tail(s), Tail(t))

\* the number a non-empty digit string writes is below 2^w, w the bits of
\* `width` limbs
Fits(s, width) ==
    \/ Len(StripZeros(s)) < Len(to_dec(MaxOf(width)))
    \/ /\ Len(StripZeros(s)) = Len(to_dec(MaxOf(width)))
       /\ DigitsLe(StripZeros(s), to_dec(MaxOf(width)))

WidthOf(f) == IF f = "u64::from_dec" THEN u64 ELSE u32

\* C12: from_dec into a width of w bits returns exactly the number a
\* non-empty digit string writes when that number is below 2^w, so that
\* decoding the decimal form of a value gives the value back; it returns an
\* error, never a wrapped value, when the number is 2^w or more; and it
\* returns an error for a string with a byte that is no digit, at the
\* offset of the first such byte when the digits before it fit the width.
C12_DecimalExactOrError ==
    \A f \in {"u64::from_dec", "u32::from_dec"} :
        (Decoded(f) /\ arg # <<>>) =>
            IF AllIn(arg, DecDigits)
            THEN IF Fits(arg, WidthOf(f))
                 THEN /\ out.tag = "Ok"
                      /\ Len(out.val) = WidthOf(f)
                      /\ to_dec(out.val) = StripZeros(arg)
                      /\ \A v \in Values(WidthOf(f)) : arg = to_dec(v) => out.val = v
                 ELSE out.tag = "Err"
            ELSE /\ out.tag = "Err"
                 /\ (\/ FirstNotIn(arg, DecDigits) = 0
                     \/ Fits(SubSeq(arg, 1, FirstNotIn(arg, DecDigits)), WidthOf(f)))
                    => /\ out.err.msg = "could not parse as a number, problem at char"
                       /\ out.err.at = FirstNotIn(arg, DecDigits)

\* u64::MAX is decoded from its decimal form
C12_Witness ==
    /\ fn = "u64::from_dec"
    /\ arg = <<"1","8","4","4","6","7","4","4","0","7","3","7","0","9","5","5","1","6","1","5">>
    /\ out = Ok(MaxOf(u64))

\* hex digits with the upper-case ones made lower-case
LowerCase(s) ==
    [i \in 1..Len(s) |->
        IF PosIn(s[i], HexUpper) > 0 THEN HexLower[PosIn(s[i], HexUpper)] ELSE s[i]]

\* C13: hex decoding into N bytes (the 16 bytes of the u128 of md5, and the
\* arrays of 20, 32, 48 and 64 bytes) succeeds exactly when the input is 2N
\* bytes long and each byte is a hex digit of either case, and then the
\* value is the one whose hex form the input is; an input of another
\* length fails; an input of length 2N with a byte that is no hex digit
\* fails and reports the offset of the first such byte.
C13_HexExactOrError ==
    \A f \in {"u128::from_hex"} \cup ArrayFns :
        Decoded(f) =>
            IF Len(arg) # HexShape(f).size * HexShape(f).digits
            THEN out.tag = "Err"
            ELSE IF ~AllIn(arg, LowerTable \o HexUpper)
            THEN /\ out.tag = "Err"
                 /\ out.err.at = FirstNotIn(arg, LowerTable \o HexUpper)
            ELSE /\ out.tag = "Ok"
                 /\ Len(out.val) = HexShape(f).size
                 /\ to_hex(out.val, HexShape(f).digits, LowerTable) = LowerCase(arg)
                 /\ \A v \in HexValues(HexShape(f)) :
                        \A table \in {LowerTable, UpperTable} :
                            arg = to_hex(v, HexShape(f).digits, table) => out.val = v

\* 64 bytes are decoded from their upper-case hex form
C13_Witness ==
    /\ fn = "Array64::from_hex"
    /\ arg = to_hex(HexSample(HexShape(fn)), 2, UpperTable)
    /\ out = Ok(HexSample(HexShape(fn)))

\* C14 (as stated): parse_time decodes a value only when it has a `.` with
\* a non-empty decimal string on each side of it.
C14_Original_TimeNeedsBothHalves ==
    (fn = "parse_time" /\ out.tag = "Ok") =>
        \E i \in 2..(Len(arg) - 1) :
            /\ arg[i] = "."
            /\ AllIn(SubSeq(arg, 1, i - 1), DecDigits)
            /\ AllIn(SubSeq(arg, i + 1, Len(arg)), DecDigits)

\* the bits that three bytes of the rwx form stand for
BitsOf(rwx) ==
    (IF rwx[1] = "r" THEN 4 ELSE 0) + (IF rwx[2] = "w" THEN 2 ELSE 0)
    + (IF rwx[3] = "x" THEN 1 ELSE 0)

\* C15: FileMode::from_bytes decodes exactly the inputs of 3 bytes that are
\* each one of `0`..`7`; the owner, group and other bits of the mode are
\* the three digits in this order; and the bits read back from the rwx
\* form of the mode are the same three digits.
C15_ModeDigitsRoundTrip ==
    Decoded("FileMode::from_bytes") =>
        /\ out.tag = "Ok" <=> (Len(arg) = 3 /\ AllIn(arg, OctDigits))
        /\ out.tag = "Ok" =>
              out.val = [owner |-> PosIn(arg[1], OctDigits) - 1,
                         group |-> PosIn(arg[2], OctDigits) - 1,
                         other |-> PosIn(arg[3], OctDigits) - 1]
        /\ shown # None =>
              /\ Len(shown[1]) = 9
              /\ \A i \in 1..9 : shown[1][i] \in {"-", <<"r", "w", "x">>[((i - 1) % 3) + 1]}
              /\ \A k \in 1..3 :
                    BitsOf(SubSeq(shown[1], 3 * k - 2, 3 * k))
                        = PosIn(arg[k], OctDigits) - 1

\* the mode 644 of the doc example is decoded and shown as rw-r--r--
C15_Witness ==
    /\ fn = "FileMode::from_bytes"
    /\ arg = <<"6","4","4">>
    /\ out = Ok([owner |-> 6, group |-> 4, other |-> 4])
    /\ shown = Some(<<"r","w","-","r","-","-","r","-","-">>)

\* the positions of the `,` bytes of s
Commas(s) == {i \in 1..Len(s) : s[i] = ","}

\* the position of the n-th `,` of s: 0 for n = 0, past the end when s has
\* fewer
NthComma(s, n) ==
    IF n = 0 THEN 0
    ELSE IF Cardinality(Commas(s)) < n THEN Len(s) + 1
    ELSE CHOOSE i \in Commas(s) : Cardinality({j \in Commas(s) : j <= i}) = n

\* the number of fields of s when it is split on `,` into four at most
FieldCount(s) == IF Cardinality(Commas(s)) >= 3 THEN 4 ELSE Cardinality(Commas(s)) + 1

\* the k-th of these fields, the fourth one holding the rest of s
Field(s, k) ==
    SubSeq(s, NthComma(s, k - 1) + 1,
           IF k = 4 THEN Len(s) ELSE NthComma(s, k) - 1)

\* the entries of the table of formats with this name
FormatsNamed(name) == {i \in 1..Len(FormatNames) : FormatNames[i][1] = name}

\* C16: a device value is split on `,` into four fields at most.  It decodes
\* exactly when its first field is one of the 16 format names and it has a
\* second and a third field; the format is then the variant of that name,
\* each name having a variant of its own; major and minor are the bytes of
\* the second and third field; the subunit is present exactly when there is
\* a fourth field, and is that field.  With a format name and fewer than
\* three fields the error names the missing field.
C16_DeviceFields ==
    /\ Len(FormatNames) = 16
    /\ \A i, j \in 1..Len(FormatNames) :
          i # j => FormatNames[i][1] # FormatNames[j][1] /\ FormatNames[i][2] # FormatNames[j][2]
    /\ Decoded("DeviceRef::from_bytes") =>
          /\ out.tag \in {"Ok", "Err"}
          /\ out.tag = "Ok" <=> (FormatsNamed(Field(arg, 1)) # {} /\ FieldCount(arg) >= 3)
          /\ out.tag = "Ok" =>
                /\ \E i \in FormatsNamed(Field(arg, 1)) : out.val.format = FormatNames[i][2]
                /\ out.val.major = Field(arg, 2)
                /\ out.val.minor = Field(arg, 3)
                /\ out.val.subunit = None <=> FieldCount(arg) < 4
                /\ FieldCount(arg) = 4 => out.val.subunit = Some(Field(arg, 4))
          /\ (FormatsNamed(Field(arg, 1)) # {} /\ FieldCount(arg) = 1)
                => out.err.msg = "could not read major field from device"
          /\ (FormatsNamed(Field(arg, 1)) # {} /\ FieldCount(arg) = 2)
                => out.err.msg = "could not read minor field from device"

\* a device with a subunit that holds a `,` is decoded
C16_Witness ==
    /\ fn = "DeviceRef::from_bytes"
    /\ arg = <<"l","i","n","u","x",",","8",",","1",",","0",",","5">>
    /\ out = Ok([format |-> "Linux", major |-> <<"8">>, minor |-> <<"1">>,
                 subunit |-> Some(<<"0",",","5">>)])

----------------------------------------------------------------------------
(* Further properties of the parse session                                 *)

\* The field of Params that each keyword with a value is kept in
FieldOf ==
    [Checksum |-> "checksum", DeviceRef |-> "device", Contents |-> "contents",
     Flags |-> "flags", Gid |-> "gid", Gname |-> "gname", Inode |-> "inode",
     Link |-> "link", Md5 |-> "md5", Mode |-> "mode", NLink |-> "nlink",
     ResidentDeviceRef |-> "resident_device", Rmd160 |-> "rmd160",
     Sha1 |-> "sha1", Sha256 |-> "sha256", Sha384 |-> "sha384",
     Sha512 |-> "sha512", Size |-> "size", Time |-> "time",
     Type |-> "file_type", Uid |-> "uid", Uname |-> "uname"]

ValuedFields == {FieldOf[kw] : kw \in DOMAIN FieldOf}

\* What the words of a line decode as, from the second word on
Decodes(item) ==
    [i \in 2..Len(Words(item)) |-> Keyword_from_bytes(Words(item)[i])]

\* Those of the decoded words that are a keyword for the field f
Naming(decoded, f) ==
    {i \in DOMAIN decoded :
        /\ decoded[i].tag = "Ok"
        /\ decoded[i].val.kw \in DOMAIN FieldOf
        /\ FieldOf[decoded[i].val.kw] = f}

\* The value of the last of these words
LastValue(decoded, named) ==
    decoded[CHOOSE i \in named : \A j \in named : j <= i].val.val

C17_Step ==
    /\ \A f \in ValuedFields : default_params[f] # None => default_params'[f] # None
    /\ (ReadsLine /\ IsSet(line'[1]) /\ pc' # "panicked") =>
          \E decoded \in {Decodes(line'[1])} :
              \A f \in ValuedFields :
                  \E named \in {Naming(decoded, f)} :
                      default_params'[f] =
                          IF named = {} THEN default_params[f]
                          ELSE Some(LastValue(decoded, named))
    /\ ~(ReadsLine /\ IsSet(line'[1])) => default_params' = default_params

\* C17: /set lines merge.  Before any line is read every field with a value
\* is absent from the default params; a /set line gives each field it names
\* the value of the last keyword it has for that field (md5 and md5digest
\* are the same field) and leaves every other field as it was; no other
\* line changes the default params; and a field that is present is never
\* absent again.  So each field holds the value of the last keyword for it
\* over all /set lines so far, and a field no /set line named is absent.
C17_SetMerges ==
    /\ [](inner.nread = 0 => \A f \in ValuedFields : default_params[f] = None)
    /\ [][C17_Step]_vars

\* A /set line with md5 is read after one with md5digest and uid: md5 is
\* overwritten under its other name, uid is kept from the earlier line.
C17_Witness ==
    /\ line = Some(Line(<<"/","s","e","t"," ","m","d","5","=","0","0","1","1","2","2","3","3","4","4","5","5","6","6","7","7","8","8","9","9","a","a","b","b","c","c","d","d","e","e","f","f">>))
    /\ default_params.md5 = Some(<<17, 8755, 17493, 26231, 34969, 43707, 52445, 61183>>)
    /\ default_params.uid = Some(<<0, 0, 0, 8>>)

C18_Step ==
    /\ default_params' # default_params => ReadsLine /\ IsSet(line'[1])
    /\ cwd' # cwd => ReadsLine /\ IsDotDot(line'[1])
    /\ ReadsLine =>
          \E kind \in {KindOf(line'[1])} :
              /\ kind \in {"Blank", "Comment", "Relative", "Full"} =>
                    cwd' = cwd /\ default_params' = default_params
              /\ kind = "Set" => cwd' = cwd
              /\ kind = "DotDot" => default_params' = default_params
    /\ Len(components(cwd')) <= Len(components(cwd))

\* C18: only a /set line changes the default params and only a `..` line
\* changes the current directory: blank lines, comments and entry lines
\* with a relative or a full path leave both as they are (an entry of
\* type=dir does not become the current directory), a /set line leaves the
\* current directory and a `..` line the default params as they are; the
\* current directory never gains a component.
C18_OnlySetAndDotDotChangeState == [][C18_Step]_vars

\* After a `..` line and a /set line an entry of type=dir is yielded, and
\* the current directory is still the one the `..` line left.
C18_Witness ==
    /\ start_dir = <<"/","a","/","b">>
    /\ cwd = <<"/","a">>
    /\ default_params.uid = Some(<<0, 0, 0, 1>>)
    /\ line = Some(Line(<<"s","u","b"," ","t","y","p","e","=","d","i","r">>))
    /\ ret.tag = "Some"
    /\ ret.item.tag = "Ok"
    /\ ret.item.val.path = <<"/","a","/","s","u","b">>
    /\ ret.item.val.params.file_type = Some("Directory")

\* The first word of the line begins with `/`
SlashLine(item) == item.io = "Ok" /\ Words(item) # <<>> /\ Words(item)[1][1] = "/"

C19_Step ==
    (ReadsLine /\ SlashLine(line'[1])) =>
        /\ ~YieldsEntry
        /\ Words(line'[1])[1] \in {<<"/","s","e","t">>, <<"/","u","n","s","e","t">>} => ~YieldsError
        /\ (Words(line'[1])[1] \notin {<<"/","s","e","t">>, <<"/","u","n","s","e","t">>} /\ pc' # "panicked") =>
              /\ YieldsError
              /\ pc' = "idle"
              /\ ret'.item.err =
                    Error_Parser(ParserError("is not a special command",
                                             Tail(Words(line'[1])[1]), 0, 0))
              /\ cwd' = cwd
              /\ default_params' = default_params

\* C19: a line whose first word begins with `/` never yields an entry.  It
\* is a directive only when the rest of the word is exactly `set` or
\* `unset`; with any other rest (none, `Set`, an absolute path) the line
\* yields an error that names the rest of the word, and the current
\* directory and the default params stay as they are (unless a keyword of
\* the line has made the parser panic first).
C19_SlashLineIsDirectiveOrError == [][C19_Step]_vars

\* `/Set uid=2`, read after a /set line, has yielded an error that names
\* `Set`, and the default params are those of the /set line
C19_Witness ==
    /\ line = Some(Line(<<"/","S","e","t"," ","u","i","d","=","2">>))
    /\ ret.tag = "Some"
    /\ ret.item.tag = "Err"
    /\ ret.item.err.cause.text = <<"S","e","t">>
    /\ default_params = [Params_default EXCEPT !.uid = Some(<<0, 0, 0, 1>>)]

\* The first word of the line has a `/` in it, does not begin with one and
\* does not begin a comment
IsFull(item) ==
    /\ item.io = "Ok"
    /\ Words(item) # <<>>
    /\ Words(item)[1][1] \notin {"#", "/"}
    /\ Contains(Words(item)[1], "/")

C20_Step ==
    (ReadsLine /\ IsFull(line'[1])) =>
        /\ YieldsEntry
        /\ pc' = "idle"
        /\ ret'.item.val.path = Words(line'[1])[1]
        /\ cwd' = cwd

\* C20: a line whose first word has a `/` in it, without beginning with one
\* or being a comment, is an entry line with a full path: it yields an
\* entry whose path is the bytes of that word as they are, whatever the
\* current directory is and whatever `..` lines came before.
C20_FullPathVerbatim == [][C20_Step]_vars

\* After a `..` line has taken the current directory from /a/b to /a, the
\* line `a/b uid=9 ignore` yields the entry a/b
C20_Witness ==
    /\ start_dir = <<"/","a","/","b">>
    /\ ndotdot = 1
    /\ cwd = <<"/","a">>
    /\ line = Some(Line(<<"a","/","b"," ","u","i","d","=","9"," ","i","g","n","o","r","e">>))
    /\ ret.tag = "Some"
    /\ ret.item.tag = "Ok"
    /\ ret.item.val.path = <<"a","/","b">>

----------------------------------------------------------------------------
(* The `..` line                                                           *)

\* The path has no component: it is the root or the empty path
Bare(path) == components(path) = <<>>

C21_Step ==
    /\ (ReadsLine /\ IsDotDot(line'[1])) =>
          /\ ~YieldsItem
          /\ pc' = "loop"
          /\ Bare(cwd) => cwd' = cwd
          /\ ~Bare(cwd) =>
                /\ components(cwd') =
                       SubSeq(components(cwd), 1, Len(components(cwd)) - 1)
                /\ Len(cwd') < Len(cwd)
                /\ cwd' = SubSeq(cwd, 1, Len(cwd'))
                /\ cwd' # <<>> \/ cwd[1] # "/"
    /\ Bare(cwd) => Bare(cwd')
    /\ (Bare(cwd) /\ ReadsLine /\ IsRelative(line'[1])) => ~YieldsEntry

\* C21: a line whose first word is `..` yields neither an entry nor an
\* error, whatever words follow it, and the loop goes on to the next
\* line.  It takes the last component off the current directory when
\* there is one (what is left is the path in front of that component, the
\* root when it was the only one of an absolute path), and leaves the
\* current directory as it is when it is the root or empty.  A current
\* directory without a component stays without one, and no line with a
\* relative path yields an entry while it is so.
C21_DotDotPopsOneComponent == [][C21_Step]_vars

\* Two `..` lines have taken the current directory from /a to the root,
\* the second one changing nothing; the line `foo` after them has yielded
\* no entry
C21_Witness ==
    /\ start_dir = <<"/","a">>
    /\ ndotdot = 2
    /\ cwd = <<"/">>
    /\ line = Some(Line(<<"f","o","o">>))
    /\ nyield = 0
    /\ ret.tag # "Some"

----------------------------------------------------------------------------
(* The time keyword                                                        *)

\* The second word of the line is time=S.N, S and N digit strings that
\* fit a u64 and a u32
HasTime(item) ==
    /\ item.io = "Ok"
    /\ Len(Words(item)) = 2
    /\ Len(Words(item)[2]) > 5
    /\ SubSeq(Words(item)[2], 1, 5) = <<"t","i","m","e","=">>
    /\ \E value \in {SubSeq(Words(item)[2], 6, Len(Words(item)[2]))} :
          /\ Contains(value, ".")
          /\ \E dot \in {FirstIndex(value, ".")} :
                /\ dot > 1 /\ dot < Len(value)
                /\ AllIn(SubSeq(value, 1, dot - 1), DecDigits)
                /\ AllIn(SubSeq(value, dot + 1, Len(value)), DecDigits)
                /\ Fits(SubSeq(value, 1, dot - 1), u64)
                /\ Fits(SubSeq(value, dot + 1, Len(value)), u32)

\* The digits of S and of N of such a line, without leading zeros
SecondsOf(item) ==
    StripZeros(SubSeq(Words(item)[2], 6, FirstIndex(Words(item)[2], ".") - 1))

NanosOf(item) ==
    StripZeros(SubSeq(Words(item)[2], FirstIndex(Words(item)[2], ".") + 1,
                      Len(Words(item)[2])))

\* time is the epoch plus S seconds plus N nanoseconds: for the k whole
\* seconds that N holds, time.secs is S + k, and time.nanos is below 10^9
\* and N - k * 10^9
IsEpochPlus(time, S, N) ==
    /\ time.nanos >= 0
    /\ time.nanos < 1000000000
    /\ \E k \in 0..4 :
          /\ to_dec(checked_add(LimbMulFrom(NanosPerSec, k, u32, 0).limbs,
                                time.nanos)[1]) = N
          /\ \E base \in {from_dec(S, u64).val} :
                /\ to_dec(base) = S
                /\ checked_add(base, k) = Some(time.secs)

\* S + k seconds are beyond what a SystemTime counts (an i64), or beyond
\* the u64 of a Duration
OutOfRange(S, N) ==
    \E k \in 0..4 :
        /\ LimbGe(from_dec(N, u32).val, LimbMulFrom(NanosPerSec, k, u32, 0).limbs)
        /\ \/ checked_add(from_dec(S, u64).val, k) = None
           \/ checked_add(from_dec(S, u64).val, k)[1][1] >= 2^15

C22_Step ==
    (ReadsLine /\ HasTime(line'[1])) =>
        \E S \in {SecondsOf(line'[1])} : \E N \in {NanosOf(line'[1])} :
            /\ pc' = "panicked" => OutOfRange(S, N)
            /\ pc' # "panicked" =>
                  IF IsSet(line'[1])
                  THEN /\ ~YieldsItem
                       /\ default_params'.time # None
                       /\ IsEpochPlus(default_params'.time[1], S, N)
                  ELSE /\ YieldsEntry
                       /\ ret'.item.val.params.time # None
                       /\ IsEpochPlus(ret'.item.val.params.time[1], S, N)

\* C22: for a time=S.N value the digits after the `.` are a whole number
\* of nanoseconds, not a decimal fraction (1.5 is 1 s and 5 ns, 1.50 is 1 s
\* and 50 ns), and every N up to 2^32 - 1 is taken, 10^9 and more
\* included: the time of the entry (of the default params, on a /set line)
\* is the epoch plus S seconds plus N nanoseconds, the whole seconds of N
\* carried into the seconds.  The line panics only when the seconds with
\* that carry are beyond what a SystemTime or a Duration counts.
C22_TimeIsSecondsPlusNanos == [][C22_Step]_vars

\* time=0.4294967295, the largest N, has given the entry the time of 4 s
\* and 294967295 ns after the epoch
C22_Witness ==
    /\ line = Some(Line(<<"x","/","t"," ","t","i","m","e","=","0",".","4","2","9","4","9","6","7","2","9","5">>))
    /\ ret.tag = "Some"
    /\ ret.item.tag = "Ok"
    /\ ret.item.val.params.time = Some([secs |-> <<0, 0, 0, 4>>, nanos |-> 294967295])

====
